---- MODULE Spec2Model ----
(***************************************************************************)
(* The wishlist cache generators of oss-wishlist/wishlists-dev.            *)
(*                                                                         *)
(* Four scripts poll the issue tracker, turn every listed issue into a     *)
(* wishlist record and write all-wishlists.json:                           *)
(*   "part_000"  src/unnamed/part_000         (body only, synchronous)     *)
(*   "part_001"  src/unnamed/part_001         (latest bot comment or body) *)
(*   "generate"  src/scripts/generate-cache.mjs  (approved only, slug ids) *)
(*   "manage"    src/scripts/manage-cache.mjs    (parseIssueForm)          *)
(*                                                                         *)
(* Text is modelled code unit by code unit: a JavaScript string is the      *)
(* sequence of its UTF-16 code units, each a number from 0 to 65535, so    *)
(* that the regular expressions, trim, split, replace and toLowerCase of   *)
(* the source are computed, not assumed, for every character.  Str writes  *)
(* such a text from its printable ASCII characters.                        *)
(* A value that may be null (an issue body, a comment body) is <<>> when   *)
(* null and <<text>> when present.                                         *)
(***************************************************************************)
EXTENDS Naturals, Sequences, FiniteSets

(***************************************************************************)
(* Characters and strings                                                  *)
(***************************************************************************)
\* the printable characters of ASCII in the order of their codes: U+0020 to
\* U+005F, and U+0061 to U+007E (a string cannot hold U+0060)
PrintableLow ==
  <<
    " ", "!", "\"", "#", "$", "%", "&", "'", "(", ")", "*", "+", ",", "-", ".", "/",
    "0", "1", "2", "3", "4", "5", "6", "7", "8", "9", ":", ";", "<", "=", ">", "?",
    "@", "A", "B", "C", "D", "E", "F", "G", "H", "I", "J", "K", "L", "M", "N", "O",
    "P", "Q", "R", "S", "T", "U", "V", "W", "X", "Y", "Z", "[", "\\", "]", "^", "_"
  >>

PrintableHigh ==
  <<
    "a", "b", "c", "d", "e", "f", "g", "h", "i", "j", "k", "l", "m", "n", "o", "p",
    "q", "r", "s", "t", "u", "v", "w", "x", "y", "z", "{", "|", "}", "~"
  >>

\* the code unit of a character written as a one-character string
CodeUnit(c) ==
  IF c = "\n" THEN 10
  ELSE IF c = "\t" THEN 9
  ELSE IF c = "\r" THEN 13
  ELSE IF c = "\f" THEN 12
  ELSE IF \E k \in 1..Len(PrintableLow) : PrintableLow[k] = c
    THEN 31 + CHOOSE k \in 1..Len(PrintableLow) : PrintableLow[k] = c
  ELSE 96 + CHOOSE k \in 1..Len(PrintableHigh) : PrintableHigh[k] = c

\* the text with the given characters
Str(chars) == [k \in 1..Len(chars) |-> CodeUnit(chars[k])]

\* the digits 0 to 9
DigitChars == [k \in 1..10 |-> 47 + k]

\* \s of a JavaScript regular expression and what String.prototype.trim
\* strips: WhiteSpace and LineTerminator, that is TAB, LF, VT, FF, CR, SP,
\* NBSP, U+1680, U+2000 to U+200A, U+2028, U+2029, U+202F, U+205F, U+3000 and
\* U+FEFF
IsSpace(c) ==
  \/ c \in 9..13
  \/ c \in {32, 160, 5760, 8232, 8233, 8239, 8287, 12288, 65279}
  \/ c \in 8192..8202

\* . of a JavaScript regular expression (no s flag): any code unit but the
\* line terminators LF, CR, U+2028, U+2029
IsDot(c) == c \notin {10, 13, 8232, 8233}

\* Canonicalize of a regular expression with the i flag and without the u
\* flag, for a comparison with an ASCII character of the pattern: a-z go to
\* A-Z; a code unit beyond ASCII never canonicalizes to an ASCII one, so it
\* is left alone
Canonicalize(ch) == IF ch \in 97..122 THEN ch - 32 ELSE ch

(***************************************************************************)
(* String.prototype.toLowerCase: the locale-insensitive lower-case mapping *)
(* of the Unicode Character Database (version 17.0), by code point.        *)
(***************************************************************************)
\* <<first, last, step, lower of first>>: the code points first, first + step,
\* ..., last beyond ASCII map to consecutive lower-case code points with the
\* same step (every simple mapping except those of A-Z, U+0130 and U+03A3)
LowerCaseRanges ==
  <<
    <<192, 214, 1, 224>>, <<216, 222, 1, 248>>, <<256, 302, 2, 257>>, <<306, 310, 2, 307>>, <<313, 327, 2, 314>>,
    <<330, 374, 2, 331>>, <<376, 376, 1, 255>>, <<377, 381, 2, 378>>, <<385, 385, 1, 595>>, <<386, 388, 2, 387>>,
    <<390, 390, 1, 596>>, <<391, 391, 1, 392>>, <<393, 394, 1, 598>>, <<395, 395, 1, 396>>, <<398, 398, 1, 477>>,
    <<399, 399, 1, 601>>, <<400, 400, 1, 603>>, <<401, 401, 1, 402>>, <<403, 403, 1, 608>>, <<404, 404, 1, 611>>,
    <<406, 406, 1, 617>>, <<407, 407, 1, 616>>, <<408, 408, 1, 409>>, <<412, 412, 1, 623>>, <<413, 413, 1, 626>>,
    <<415, 415, 1, 629>>, <<416, 420, 2, 417>>, <<422, 422, 1, 640>>, <<423, 423, 1, 424>>, <<425, 425, 1, 643>>,
    <<428, 428, 1, 429>>, <<430, 430, 1, 648>>, <<431, 431, 1, 432>>, <<433, 434, 1, 650>>, <<435, 437, 2, 436>>,
    <<439, 439, 1, 658>>, <<440, 440, 1, 441>>, <<444, 444, 1, 445>>, <<452, 452, 1, 454>>, <<453, 453, 1, 454>>,
    <<455, 455, 1, 457>>, <<456, 456, 1, 457>>, <<458, 458, 1, 460>>, <<459, 475, 2, 460>>, <<478, 494, 2, 479>>,
    <<497, 497, 1, 499>>, <<498, 500, 2, 499>>, <<502, 502, 1, 405>>, <<503, 503, 1, 447>>, <<504, 542, 2, 505>>,
    <<544, 544, 1, 414>>, <<546, 562, 2, 547>>, <<570, 570, 1, 11365>>, <<571, 571, 1, 572>>, <<573, 573, 1, 410>>,
    <<574, 574, 1, 11366>>, <<577, 577, 1, 578>>, <<579, 579, 1, 384>>, <<580, 580, 1, 649>>, <<581, 581, 1, 652>>,
    <<582, 590, 2, 583>>, <<880, 882, 2, 881>>, <<886, 886, 1, 887>>, <<895, 895, 1, 1011>>, <<902, 902, 1, 940>>,
    <<904, 906, 1, 941>>, <<908, 908, 1, 972>>, <<910, 911, 1, 973>>, <<913, 929, 1, 945>>, <<932, 939, 1, 964>>,
    <<975, 975, 1, 983>>, <<984, 1006, 2, 985>>, <<1012, 1012, 1, 952>>, <<1015, 1015, 1, 1016>>, <<1017, 1017, 1, 1010>>,
    <<1018, 1018, 1, 1019>>, <<1021, 1023, 1, 891>>, <<1024, 1039, 1, 1104>>, <<1040, 1071, 1, 1072>>, <<1120, 1152, 2, 1121>>,
    <<1162, 1214, 2, 1163>>, <<1216, 1216, 1, 1231>>, <<1217, 1229, 2, 1218>>, <<1232, 1326, 2, 1233>>, <<1329, 1366, 1, 1377>>,
    <<4256, 4293, 1, 11520>>, <<4295, 4295, 1, 11559>>, <<4301, 4301, 1, 11565>>, <<5024, 5103, 1, 43888>>, <<5104, 5109, 1, 5112>>,
    <<7305, 7305, 1, 7306>>, <<7312, 7354, 1, 4304>>, <<7357, 7359, 1, 4349>>, <<7680, 7828, 2, 7681>>, <<7838, 7838, 1, 223>>,
    <<7840, 7934, 2, 7841>>, <<7944, 7951, 1, 7936>>, <<7960, 7965, 1, 7952>>, <<7976, 7983, 1, 7968>>, <<7992, 7999, 1, 7984>>,
    <<8008, 8013, 1, 8000>>, <<8025, 8031, 2, 8017>>, <<8040, 8047, 1, 8032>>, <<8072, 8079, 1, 8064>>, <<8088, 8095, 1, 8080>>,
    <<8104, 8111, 1, 8096>>, <<8120, 8121, 1, 8112>>, <<8122, 8123, 1, 8048>>, <<8124, 8124, 1, 8115>>, <<8136, 8139, 1, 8050>>,
    <<8140, 8140, 1, 8131>>, <<8152, 8153, 1, 8144>>, <<8154, 8155, 1, 8054>>, <<8168, 8169, 1, 8160>>, <<8170, 8171, 1, 8058>>,
    <<8172, 8172, 1, 8165>>, <<8184, 8185, 1, 8056>>, <<8186, 8187, 1, 8060>>, <<8188, 8188, 1, 8179>>, <<8486, 8486, 1, 969>>,
    <<8490, 8490, 1, 107>>, <<8491, 8491, 1, 229>>, <<8498, 8498, 1, 8526>>, <<8544, 8559, 1, 8560>>, <<8579, 8579, 1, 8580>>,
    <<9398, 9423, 1, 9424>>, <<11264, 11311, 1, 11312>>, <<11360, 11360, 1, 11361>>, <<11362, 11362, 1, 619>>, <<11363, 11363, 1, 7549>>,
    <<11364, 11364, 1, 637>>, <<11367, 11371, 2, 11368>>, <<11373, 11373, 1, 593>>, <<11374, 11374, 1, 625>>, <<11375, 11375, 1, 592>>,
    <<11376, 11376, 1, 594>>, <<11378, 11378, 1, 11379>>, <<11381, 11381, 1, 11382>>, <<11390, 11391, 1, 575>>, <<11392, 11490, 2, 11393>>,
    <<11499, 11501, 2, 11500>>, <<11506, 11506, 1, 11507>>, <<42560, 42604, 2, 42561>>, <<42624, 42650, 2, 42625>>, <<42786, 42798, 2, 42787>>,
    <<42802, 42862, 2, 42803>>, <<42873, 42875, 2, 42874>>, <<42877, 42877, 1, 7545>>, <<42878, 42886, 2, 42879>>, <<42891, 42891, 1, 42892>>,
    <<42893, 42893, 1, 613>>, <<42896, 42898, 2, 42897>>, <<42902, 42920, 2, 42903>>, <<42922, 42922, 1, 614>>, <<42923, 42923, 1, 604>>,
    <<42924, 42924, 1, 609>>, <<42925, 42925, 1, 620>>, <<42926, 42926, 1, 618>>, <<42928, 42928, 1, 670>>, <<42929, 42929, 1, 647>>,
    <<42930, 42930, 1, 669>>, <<42931, 42931, 1, 43859>>, <<42932, 42946, 2, 42933>>, <<42948, 42948, 1, 42900>>, <<42949, 42949, 1, 642>>,
    <<42950, 42950, 1, 7566>>, <<42951, 42953, 2, 42952>>, <<42955, 42955, 1, 612>>, <<42956, 42970, 2, 42957>>, <<42972, 42972, 1, 411>>,
    <<42997, 42997, 1, 42998>>, <<65313, 65338, 1, 65345>>, <<66560, 66599, 1, 66600>>, <<66736, 66771, 1, 66776>>, <<66928, 66938, 1, 66967>>,
    <<66940, 66954, 1, 66979>>, <<66956, 66962, 1, 66995>>, <<66964, 66965, 1, 67003>>, <<68736, 68786, 1, 68800>>, <<68944, 68965, 1, 68976>>,
    <<71840, 71871, 1, 71872>>, <<93760, 93791, 1, 93792>>, <<93856, 93880, 1, 93883>>, <<125184, 125217, 1, 125218>>
  >>

\* <<first, last>>: the code points that are Cased and not Case_Ignorable
CasedRanges ==
  <<
    <<65, 90>>, <<97, 122>>, <<170, 170>>, <<181, 181>>, <<186, 186>>, <<192, 214>>, <<216, 246>>,
    <<248, 442>>, <<444, 447>>, <<452, 659>>, <<662, 687>>, <<880, 883>>, <<886, 887>>, <<891, 893>>,
    <<895, 895>>, <<902, 902>>, <<904, 906>>, <<908, 908>>, <<910, 929>>, <<931, 1013>>, <<1015, 1153>>,
    <<1162, 1327>>, <<1329, 1366>>, <<1376, 1416>>, <<4256, 4293>>, <<4295, 4295>>, <<4301, 4301>>, <<4304, 4346>>,
    <<4349, 4351>>, <<5024, 5109>>, <<5112, 5117>>, <<7296, 7306>>, <<7312, 7354>>, <<7357, 7359>>, <<7424, 7467>>,
    <<7531, 7543>>, <<7545, 7578>>, <<7680, 7957>>, <<7960, 7965>>, <<7968, 8005>>, <<8008, 8013>>, <<8016, 8023>>,
    <<8025, 8025>>, <<8027, 8027>>, <<8029, 8029>>, <<8031, 8061>>, <<8064, 8116>>, <<8118, 8124>>, <<8126, 8126>>,
    <<8130, 8132>>, <<8134, 8140>>, <<8144, 8147>>, <<8150, 8155>>, <<8160, 8172>>, <<8178, 8180>>, <<8182, 8188>>,
    <<8450, 8450>>, <<8455, 8455>>, <<8458, 8467>>, <<8469, 8469>>, <<8473, 8477>>, <<8484, 8484>>, <<8486, 8486>>,
    <<8488, 8488>>, <<8490, 8493>>, <<8495, 8500>>, <<8505, 8505>>, <<8508, 8511>>, <<8517, 8521>>, <<8526, 8526>>,
    <<8544, 8575>>, <<8579, 8580>>, <<9398, 9449>>, <<11264, 11387>>, <<11390, 11492>>, <<11499, 11502>>, <<11506, 11507>>,
    <<11520, 11557>>, <<11559, 11559>>, <<11565, 11565>>, <<42560, 42605>>, <<42624, 42651>>, <<42786, 42863>>, <<42865, 42887>>,
    <<42891, 42894>>, <<42896, 42972>>, <<42997, 42998>>, <<43002, 43002>>, <<43824, 43866>>, <<43872, 43880>>, <<43888, 43967>>,
    <<64256, 64262>>, <<64275, 64279>>, <<65313, 65338>>, <<65345, 65370>>, <<66560, 66639>>, <<66736, 66771>>, <<66776, 66811>>,
    <<66928, 66938>>, <<66940, 66954>>, <<66956, 66962>>, <<66964, 66965>>, <<66967, 66977>>, <<66979, 66993>>, <<66995, 67001>>,
    <<67003, 67004>>, <<68736, 68786>>, <<68800, 68850>>, <<68944, 68965>>, <<68976, 68997>>, <<71840, 71903>>, <<93760, 93823>>,
    <<93856, 93880>>, <<93883, 93907>>, <<119808, 119892>>, <<119894, 119964>>, <<119966, 119967>>, <<119970, 119970>>, <<119973, 119974>>,
    <<119977, 119980>>, <<119982, 119993>>, <<119995, 119995>>, <<119997, 120003>>, <<120005, 120069>>, <<120071, 120074>>, <<120077, 120084>>,
    <<120086, 120092>>, <<120094, 120121>>, <<120123, 120126>>, <<120128, 120132>>, <<120134, 120134>>, <<120138, 120144>>, <<120146, 120485>>,
    <<120488, 120512>>, <<120514, 120538>>, <<120540, 120570>>, <<120572, 120596>>, <<120598, 120628>>, <<120630, 120654>>, <<120656, 120686>>,
    <<120688, 120712>>, <<120714, 120744>>, <<120746, 120770>>, <<120772, 120779>>, <<122624, 122633>>, <<122635, 122654>>, <<122661, 122666>>,
    <<125184, 125251>>, <<127280, 127305>>, <<127312, 127337>>, <<127344, 127369>>
  >>

\* <<first, last>>: the code points that are Case_Ignorable
CaseIgnorableRanges ==
  <<
    <<39, 39>>, <<46, 46>>, <<58, 58>>, <<94, 94>>, <<96, 96>>, <<168, 168>>, <<173, 173>>,
    <<175, 175>>, <<180, 180>>, <<183, 184>>, <<688, 879>>, <<884, 885>>, <<890, 890>>, <<900, 901>>,
    <<903, 903>>, <<1155, 1161>>, <<1369, 1369>>, <<1375, 1375>>, <<1425, 1469>>, <<1471, 1471>>, <<1473, 1474>>,
    <<1476, 1477>>, <<1479, 1479>>, <<1524, 1524>>, <<1536, 1541>>, <<1552, 1562>>, <<1564, 1564>>, <<1600, 1600>>,
    <<1611, 1631>>, <<1648, 1648>>, <<1750, 1757>>, <<1759, 1768>>, <<1770, 1773>>, <<1807, 1807>>, <<1809, 1809>>,
    <<1840, 1866>>, <<1958, 1968>>, <<2027, 2037>>, <<2042, 2042>>, <<2045, 2045>>, <<2070, 2093>>, <<2137, 2139>>,
    <<2184, 2184>>, <<2192, 2193>>, <<2199, 2207>>, <<2249, 2306>>, <<2362, 2362>>, <<2364, 2364>>, <<2369, 2376>>,
    <<2381, 2381>>, <<2385, 2391>>, <<2402, 2403>>, <<2417, 2417>>, <<2433, 2433>>, <<2492, 2492>>, <<2497, 2500>>,
    <<2509, 2509>>, <<2530, 2531>>, <<2558, 2558>>, <<2561, 2562>>, <<2620, 2620>>, <<2625, 2626>>, <<2631, 2632>>,
    <<2635, 2637>>, <<2641, 2641>>, <<2672, 2673>>, <<2677, 2677>>, <<2689, 2690>>, <<2748, 2748>>, <<2753, 2757>>,
    <<2759, 2760>>, <<2765, 2765>>, <<2786, 2787>>, <<2810, 2815>>, <<2817, 2817>>, <<2876, 2876>>, <<2879, 2879>>,
    <<2881, 2884>>, <<2893, 2893>>, <<2901, 2902>>, <<2914, 2915>>, <<2946, 2946>>, <<3008, 3008>>, <<3021, 3021>>,
    <<3072, 3072>>, <<3076, 3076>>, <<3132, 3132>>, <<3134, 3136>>, <<3142, 3144>>, <<3146, 3149>>, <<3157, 3158>>,
    <<3170, 3171>>, <<3201, 3201>>, <<3260, 3260>>, <<3263, 3263>>, <<3270, 3270>>, <<3276, 3277>>, <<3298, 3299>>,
    <<3328, 3329>>, <<3387, 3388>>, <<3393, 3396>>, <<3405, 3405>>, <<3426, 3427>>, <<3457, 3457>>, <<3530, 3530>>,
    <<3538, 3540>>, <<3542, 3542>>, <<3633, 3633>>, <<3636, 3642>>, <<3654, 3662>>, <<3761, 3761>>, <<3764, 3772>>,
    <<3782, 3782>>, <<3784, 3790>>, <<3864, 3865>>, <<3893, 3893>>, <<3895, 3895>>, <<3897, 3897>>, <<3953, 3966>>,
    <<3968, 3972>>, <<3974, 3975>>, <<3981, 3991>>, <<3993, 4028>>, <<4038, 4038>>, <<4141, 4144>>, <<4146, 4151>>,
    <<4153, 4154>>, <<4157, 4158>>, <<4184, 4185>>, <<4190, 4192>>, <<4209, 4212>>, <<4226, 4226>>, <<4229, 4230>>,
    <<4237, 4237>>, <<4253, 4253>>, <<4348, 4348>>, <<4957, 4959>>, <<5906, 5908>>, <<5938, 5939>>, <<5970, 5971>>,
    <<6002, 6003>>, <<6068, 6069>>, <<6071, 6077>>, <<6086, 6086>>, <<6089, 6099>>, <<6103, 6103>>, <<6109, 6109>>,
    <<6155, 6159>>, <<6211, 6211>>, <<6277, 6278>>, <<6313, 6313>>, <<6432, 6434>>, <<6439, 6440>>, <<6450, 6450>>,
    <<6457, 6459>>, <<6679, 6680>>, <<6683, 6683>>, <<6742, 6742>>, <<6744, 6750>>, <<6752, 6752>>, <<6754, 6754>>,
    <<6757, 6764>>, <<6771, 6780>>, <<6783, 6783>>, <<6823, 6823>>, <<6832, 6877>>, <<6880, 6891>>, <<6912, 6915>>,
    <<6964, 6964>>, <<6966, 6970>>, <<6972, 6972>>, <<6978, 6978>>, <<7019, 7027>>, <<7040, 7041>>, <<7074, 7077>>,
    <<7080, 7081>>, <<7083, 7085>>, <<7142, 7142>>, <<7144, 7145>>, <<7149, 7149>>, <<7151, 7153>>, <<7212, 7219>>,
    <<7222, 7223>>, <<7288, 7293>>, <<7376, 7378>>, <<7380, 7392>>, <<7394, 7400>>, <<7405, 7405>>, <<7412, 7412>>,
    <<7416, 7417>>, <<7468, 7530>>, <<7544, 7544>>, <<7579, 7679>>, <<8125, 8125>>, <<8127, 8129>>, <<8141, 8143>>,
    <<8157, 8159>>, <<8173, 8175>>, <<8189, 8190>>, <<8203, 8207>>, <<8216, 8217>>, <<8228, 8228>>, <<8231, 8231>>,
    <<8234, 8238>>, <<8288, 8292>>, <<8294, 8303>>, <<8305, 8305>>, <<8319, 8319>>, <<8336, 8348>>, <<8400, 8432>>,
    <<11388, 11389>>, <<11503, 11505>>, <<11631, 11631>>, <<11647, 11647>>, <<11744, 11775>>, <<11823, 11823>>, <<12293, 12293>>,
    <<12330, 12333>>, <<12337, 12341>>, <<12347, 12347>>, <<12441, 12446>>, <<12540, 12542>>, <<40981, 40981>>, <<42232, 42237>>,
    <<42508, 42508>>, <<42607, 42610>>, <<42612, 42621>>, <<42623, 42623>>, <<42652, 42655>>, <<42736, 42737>>, <<42752, 42785>>,
    <<42864, 42864>>, <<42888, 42890>>, <<42993, 42996>>, <<43000, 43001>>, <<43010, 43010>>, <<43014, 43014>>, <<43019, 43019>>,
    <<43045, 43046>>, <<43052, 43052>>, <<43204, 43205>>, <<43232, 43249>>, <<43263, 43263>>, <<43302, 43309>>, <<43335, 43345>>,
    <<43392, 43394>>, <<43443, 43443>>, <<43446, 43449>>, <<43452, 43453>>, <<43471, 43471>>, <<43493, 43494>>, <<43561, 43566>>,
    <<43569, 43570>>, <<43573, 43574>>, <<43587, 43587>>, <<43596, 43596>>, <<43632, 43632>>, <<43644, 43644>>, <<43696, 43696>>,
    <<43698, 43700>>, <<43703, 43704>>, <<43710, 43711>>, <<43713, 43713>>, <<43741, 43741>>, <<43756, 43757>>, <<43763, 43764>>,
    <<43766, 43766>>, <<43867, 43871>>, <<43881, 43883>>, <<44005, 44005>>, <<44008, 44008>>, <<44013, 44013>>, <<64286, 64286>>,
    <<64434, 64450>>, <<65024, 65039>>, <<65043, 65043>>, <<65056, 65071>>, <<65106, 65106>>, <<65109, 65109>>, <<65279, 65279>>,
    <<65287, 65287>>, <<65294, 65294>>, <<65306, 65306>>, <<65342, 65342>>, <<65344, 65344>>, <<65392, 65392>>, <<65438, 65439>>,
    <<65507, 65507>>, <<65529, 65531>>, <<66045, 66045>>, <<66272, 66272>>, <<66422, 66426>>, <<67456, 67461>>, <<67463, 67504>>,
    <<67506, 67514>>, <<68097, 68099>>, <<68101, 68102>>, <<68108, 68111>>, <<68152, 68154>>, <<68159, 68159>>, <<68325, 68326>>,
    <<68900, 68903>>, <<68942, 68942>>, <<68969, 68973>>, <<68975, 68975>>, <<69291, 69292>>, <<69317, 69317>>, <<69370, 69375>>,
    <<69446, 69456>>, <<69506, 69509>>, <<69633, 69633>>, <<69688, 69702>>, <<69744, 69744>>, <<69747, 69748>>, <<69759, 69761>>,
    <<69811, 69814>>, <<69817, 69818>>, <<69821, 69821>>, <<69826, 69826>>, <<69837, 69837>>, <<69888, 69890>>, <<69927, 69931>>,
    <<69933, 69940>>, <<70003, 70003>>, <<70016, 70017>>, <<70070, 70078>>, <<70089, 70092>>, <<70095, 70095>>, <<70191, 70193>>,
    <<70196, 70196>>, <<70198, 70199>>, <<70206, 70206>>, <<70209, 70209>>, <<70367, 70367>>, <<70371, 70378>>, <<70400, 70401>>,
    <<70459, 70460>>, <<70464, 70464>>, <<70502, 70508>>, <<70512, 70516>>, <<70587, 70592>>, <<70606, 70606>>, <<70608, 70608>>,
    <<70610, 70610>>, <<70625, 70626>>, <<70712, 70719>>, <<70722, 70724>>, <<70726, 70726>>, <<70750, 70750>>, <<70835, 70840>>,
    <<70842, 70842>>, <<70847, 70848>>, <<70850, 70851>>, <<71090, 71093>>, <<71100, 71101>>, <<71103, 71104>>, <<71132, 71133>>,
    <<71219, 71226>>, <<71229, 71229>>, <<71231, 71232>>, <<71339, 71339>>, <<71341, 71341>>, <<71344, 71349>>, <<71351, 71351>>,
    <<71453, 71453>>, <<71455, 71455>>, <<71458, 71461>>, <<71463, 71467>>, <<71727, 71735>>, <<71737, 71738>>, <<71995, 71996>>,
    <<71998, 71998>>, <<72003, 72003>>, <<72148, 72151>>, <<72154, 72155>>, <<72160, 72160>>, <<72193, 72202>>, <<72243, 72248>>,
    <<72251, 72254>>, <<72263, 72263>>, <<72273, 72278>>, <<72281, 72283>>, <<72330, 72342>>, <<72344, 72345>>, <<72544, 72544>>,
    <<72546, 72548>>, <<72550, 72550>>, <<72752, 72758>>, <<72760, 72765>>, <<72767, 72767>>, <<72850, 72871>>, <<72874, 72880>>,
    <<72882, 72883>>, <<72885, 72886>>, <<73009, 73014>>, <<73018, 73018>>, <<73020, 73021>>, <<73023, 73029>>, <<73031, 73031>>,
    <<73104, 73105>>, <<73109, 73109>>, <<73111, 73111>>, <<73177, 73177>>, <<73459, 73460>>, <<73472, 73473>>, <<73526, 73530>>,
    <<73536, 73536>>, <<73538, 73538>>, <<73562, 73562>>, <<78896, 78912>>, <<78919, 78933>>, <<90398, 90409>>, <<90413, 90415>>,
    <<92912, 92916>>, <<92976, 92982>>, <<92992, 92995>>, <<93504, 93506>>, <<93547, 93548>>, <<94031, 94031>>, <<94095, 94111>>,
    <<94176, 94177>>, <<94179, 94180>>, <<94194, 94195>>, <<110576, 110579>>, <<110581, 110587>>, <<110589, 110590>>, <<113821, 113822>>,
    <<113824, 113827>>, <<118528, 118573>>, <<118576, 118598>>, <<119143, 119145>>, <<119155, 119170>>, <<119173, 119179>>, <<119210, 119213>>,
    <<119362, 119364>>, <<121344, 121398>>, <<121403, 121452>>, <<121461, 121461>>, <<121476, 121476>>, <<121499, 121503>>, <<121505, 121519>>,
    <<122880, 122886>>, <<122888, 122904>>, <<122907, 122913>>, <<122915, 122916>>, <<122918, 122922>>, <<122928, 122989>>, <<123023, 123023>>,
    <<123184, 123197>>, <<123566, 123566>>, <<123628, 123631>>, <<124139, 124143>>, <<124398, 124399>>, <<124643, 124643>>, <<124646, 124646>>,
    <<124654, 124655>>, <<124661, 124661>>, <<124671, 124671>>, <<125136, 125142>>, <<125252, 125259>>, <<127995, 127999>>, <<917505, 917505>>,
    <<917536, 917631>>, <<917760, 917999>>
  >>

InRanges(cp, ranges) ==
  \E k \in 1..Len(ranges) : ranges[k][1] <= cp /\ cp <= ranges[k][2]

\* the lower case of a code point that maps to one code point
simpleLowerCase(cp) ==
  IF cp < 128 THEN (IF cp \in 65..90 THEN cp + 32 ELSE cp)
  ELSE LET hits == {k \in 1..Len(LowerCaseRanges) :
                      /\ LowerCaseRanges[k][1] <= cp
                      /\ cp <= LowerCaseRanges[k][2]
                      /\ (cp - LowerCaseRanges[k][1]) % LowerCaseRanges[k][3] = 0}
           r    == LowerCaseRanges[CHOOSE k \in hits : TRUE]
       IN  IF hits = {} THEN cp ELSE r[4] + (cp - r[1])

\* the code points of a text: a high surrogate followed by a low surrogate is
\* one code point, any other code unit stands for itself
RECURSIVE codePoints(_)
codePoints(s) ==
  IF s = <<>> THEN <<>>
  ELSE IF Len(s) >= 2 /\ s[1] \in 55296..56319 /\ s[2] \in 56320..57343
    THEN <<65536 + (s[1] - 55296) * 1024 + (s[2] - 56320)>>
           \o codePoints(SubSeq(s, 3, Len(s)))
  ELSE <<s[1]>> \o codePoints(Tail(s))

\* the UTF-16 code units of a code point
codeUnits(cp) ==
  IF cp < 65536 THEN <<cp>>
  ELSE <<55296 + ((cp - 65536) \div 1024), 56320 + ((cp - 65536) % 1024)>>

\* the condition Final_Sigma for the capital sigma at position k: before it,
\* past any case-ignorable code points, stands a cased one, and after it, past
\* any case-ignorable ones, stands none
finalSigma(cps, k) ==
  LET before == {j \in 1..k - 1 : ~InRanges(cps[j], CaseIgnorableRanges)}
      after  == {j \in k + 1..Len(cps) : ~InRanges(cps[j], CaseIgnorableRanges)}
  IN  /\ before # {}
      /\ InRanges(cps[CHOOSE j \in before : \A i \in before : i <= j], CasedRanges)
      /\ \/ after = {}
         \/ ~InRanges(cps[CHOOSE j \in after : \A i \in after : j <= i], CasedRanges)

\* the lower case of the code point at position k: U+0130 gives i and the
\* combining dot U+0307, U+03A3 gives the final or the medial small sigma
lowerCaseAt(cps, k) ==
  IF cps[k] = 304 THEN <<105, 775>>
  ELSE IF cps[k] = 931 THEN (IF finalSigma(cps, k) THEN <<962>> ELSE <<963>>)
  ELSE codeUnits(simpleLowerCase(cps[k]))

RECURSIVE lowerCaseFrom(_, _)
lowerCaseFrom(cps, k) ==
  IF k > Len(cps) THEN <<>> ELSE lowerCaseAt(cps, k) \o lowerCaseFrom(cps, k + 1)

toLowerCase(s) == lowerCaseFrom(codePoints(s), 1)

SetMin(S) == CHOOSE x \in S : \A y \in S : x <= y

SetMax(S) == CHOOSE x \in S : \A y \in S : x >= y

trim(s) ==
  LET keep == {k \in 1..Len(s) : ~IsSpace(s[k])}
  IN  IF keep = {} THEN <<>> ELSE SubSeq(s, SetMin(keep), SetMax(keep))

\* p occurs in s at position i (String.prototype.startsWith(p, i-1))
StartsWithAt(s, i, p) ==
  /\ i >= 1
  /\ i + Len(p) - 1 <= Len(s)
  /\ \A k \in 1..Len(p) : s[i + k - 1] = p[k]

\* the same under the i flag of a regular expression, p being ASCII
StartsWithAtCI(s, i, p) ==
  /\ i >= 1
  /\ i + Len(p) - 1 <= Len(s)
  /\ \A k \in 1..Len(p) : Canonicalize(s[i + k - 1]) = Canonicalize(p[k])

\* first position of p in s, 0 when there is none (indexOf, 1-based)
IndexOf(s, p) ==
  LET hits == {i \in 1..Len(s) + 1 : StartsWithAt(s, i, p)}
  IN  IF hits = {} THEN 0 ELSE SetMin(hits)

includes(s, p) == IndexOf(s, p) # 0

\* String.prototype.split with a non-empty separator
RECURSIVE split(_, _)
split(s, sep) ==
  LET i == IndexOf(s, sep)
  IN  IF i = 0
        THEN <<s>>
        ELSE <<SubSeq(s, 1, i - 1)>> \o split(SubSeq(s, i + Len(sep), Len(s)), sep)

\* Array.prototype.join
RECURSIVE join(_, _)
join(parts, sep) ==
  IF parts = <<>> THEN <<>>
  ELSE IF Len(parts) = 1 THEN parts[1]
  ELSE parts[1] \o sep \o join(Tail(parts), sep)

\* Array.prototype.map(trim).filter(non-empty)
RECURSIVE trimAndDropEmpty(_)
trimAndDropEmpty(parts) ==
  IF parts = <<>> THEN <<>>
  ELSE LET t == trim(parts[1])
       IN  (IF t = <<>> THEN <<>> ELSE <<t>>) \o trimAndDropEmpty(Tail(parts))

\* the decimal text of a number, as a template literal writes it
RECURSIVE numberToString(_)
numberToString(n) ==
  IF n < 10 THEN <<DigitChars[n + 1]>>
  ELSE numberToString(n \div 10) \o <<DigitChars[(n % 10) + 1]>>

\* the elements of a sequence
Range(f) == {f[k] : k \in DOMAIN f}

(***************************************************************************)
(* Literals of the source                                                  *)
(***************************************************************************)
HeadingMarker == Str(<<"#", "#", "#">>)

CheckedMarker == Str(<<"[", "x", "]">>)

ProjectNameHeader == Str(<<"P", "r", "o", "j", "e", "c", "t", " ", "N", "a", "m", "e">>)

PackageEcosystemsHeader ==
  Str(<<"P", "a", "c", "k", "a", "g", "e", " ", "E", "c", "o", "s", "y", "s", "t", "e", "m", "s">>)

ServicesRequestedHeader ==
  Str(<<"S", "e", "r", "v", "i", "c", "e", "s", " ", "R", "e", "q", "u", "e", "s", "t", "e", "d">>)

UrgencyLevelHeader == Str(<<"U", "r", "g", "e", "n", "c", "y", " ", "L", "e", "v", "e", "l">>)

RepositoryHeader == Str(<<"R", "e", "p", "o", "s", "i", "t", "o", "r", "y">>)

GithubHost == Str(<<"g", "i", "t", "h", "u", "b", ".", "c", "o", "m", "/">>)

GitSuffix == Str(<<".", "g", "i", "t">>)

WishlistPrefix == Str(<<"w", "i", "s", "h", "l", "i", "s", "t">>)

WishlistColon == Str(<<"W", "i", "s", "h", "l", "i", "s", "t", ":", " ">>)

WishlistHash == Str(<<"W", "i", "s", "h", "l", "i", "s", "t", " ", "#">>)

ProtoKey == Str(<<"_", "_", "p", "r", "o", "t", "o", "_", "_">>)

BotLogin == "oss-wishlist-bot"

ApprovedLabel == "approved-wishlist"

\* the placeholder of an unanswered form field
NoResponse == Str(<<"_", "N", "o", " ", "r", "e", "s", "p", "o", "n", "s", "e", "_">>)

\* the levels and the options of the Urgency Level dropdown (manage-cache.mjs:63-68)
LevelLow == Str(<<"l", "o", "w">>)

LevelMedium == Str(<<"m", "e", "d", "i", "u", "m">>)

LevelHigh == Str(<<"h", "i", "g", "h">>)

LevelCritical == Str(<<"c", "r", "i", "t", "i", "c", "a", "l">>)

OptionLow == Str(<<"L", "o", "w", " ", "-", " ", "P", "l", "a", "n", "n", "i", "n", "g", " ", "f", "o", "r", " ", "f", "u", "t", "u", "r", "e">>)

OptionMedium == Str(<<"M", "e", "d", "i", "u", "m", " ", "-", " ", "N", "e", "e", "d", "e", "d", " ", "w", "i", "t", "h", "i", "n", " ", "m", "o", "n", "t", "h", "s">>)

OptionHigh == Str(<<"H", "i", "g", "h", " ", "-", " ", "N", "e", "e", "d", "e", "d", " ", "w", "i", "t", "h", "i", "n", " ", "w", "e", "e", "k", "s">>)

OptionCritical == Str(<<"C", "r", "i", "t", "i", "c", "a", "l", " ", "-", " ", "N", "e", "e", "d", "e", "d", " ", "i", "m", "m", "e", "d", "i", "a", "t", "e", "l", "y">>)

(***************************************************************************)
(* extractSection: /### <header>\n([\s\S]*?)(?=###|$)/i, trimmed           *)
(***************************************************************************)
extractSection(body, sectionHeader) ==
  LET pat   == HeadingMarker \o <<32>> \o sectionHeader \o <<10>>
      hits  == {i \in 1..Len(body) : StartsWithAtCI(body, i, pat)}
      i     == SetMin(hits)
      j     == i + Len(pat)
      stops == {k \in j..Len(body) : StartsWithAt(body, k, HeadingMarker)}
      e     == IF stops = {} THEN Len(body) + 1 ELSE SetMin(stops)
  IN  IF hits = {} THEN <<>> ELSE trim(SubSeq(body, j, e - 1))

(***************************************************************************)
(* parseCommaSeparated                                                     *)
(***************************************************************************)
parseCommaSeparated(content) == trimAndDropEmpty(split(content, <<44>>))

(***************************************************************************)
(* parseCheckboxes: lines containing "[x]", each matched against           *)
(* /\[x\]\s*(.+?)(?:\s*-|$)/                                               *)
(***************************************************************************)
\* (?:\s*-|$) matches at position e of line
CheckboxTail(line, e) ==
  \/ e = Len(line) + 1
  \/ \E d \in e..Len(line) :
       /\ line[d] = 45
       /\ \A k \in e..d - 1 : IsSpace(line[k])

\* the captures <<c, e>> (group 1 is line[c..e-1]) of a match that begins at i
CheckboxCaptures(line, i) ==
  {ce \in (1..Len(line) + 1) \X (1..Len(line) + 1) :
     /\ StartsWithAt(line, i, CheckedMarker)
     /\ ce[1] >= i + 3
     /\ ce[2] > ce[1]
     /\ \A k \in i + 3..ce[1] - 1 : IsSpace(line[k])
     /\ \A k \in ce[1]..ce[2] - 1 : IsDot(line[k])
     /\ CheckboxTail(line, ce[2])}

\* group 1 of the match the backtracking engine finds: the leftmost start,
\* the longest \s*, then the shortest .+?; <<>> when nothing matches
CheckboxLabel(line) ==
  LET starts == {i \in 1..Len(line) : CheckboxCaptures(line, i) # {}}
      i      == SetMin(starts)
      caps   == CheckboxCaptures(line, i)
      c      == SetMax({ce[1] : ce \in caps})
      e      == SetMin({ce[2] : ce \in {x \in caps : x[1] = c}})
  IN  IF starts = {} THEN <<>> ELSE trim(SubSeq(line, c, e - 1))

RECURSIVE checkedLabels(_)
checkedLabels(lines) ==
  IF lines = <<>> THEN <<>>
  ELSE LET item == IF includes(lines[1], CheckedMarker)
                     THEN CheckboxLabel(lines[1]) ELSE <<>>
       IN  (IF item = <<>> THEN <<>> ELSE <<item>>) \o checkedLabels(Tail(lines))

parseCheckboxes(content) == checkedLabels(split(content, <<10>>))

(***************************************************************************)
(* The urgency of part_000 and part_001:                                   *)
(* urgencyText.match(/^\s*(.+?)(?:\s*-|$)/m), group 1 trimmed              *)
(***************************************************************************)
\* a line terminator (LF, CR, U+2028, U+2029): what ^ follows and $ precedes
\* under the m flag
IsLineEnd(c) == c \in {10, 13, 8232, 8233}

\* (?:\s*-|$) matches at position e of text, $ being the end of a line
UrgencyTail(text, e) ==
  \/ e = Len(text) + 1
  \/ IsLineEnd(text[e])
  \/ \E d \in e..Len(text) :
       /\ text[d] = 45
       /\ \A k \in e..d - 1 : IsSpace(text[k])

\* the captures <<c, e>> (group 1 is text[c..e-1]) of a match that begins at
\* the line start i
UrgencyCaptures(text, i) ==
  {ce \in (1..Len(text) + 1) \X (1..Len(text) + 1) :
     /\ i = 1 \/ IsLineEnd(text[i - 1])
     /\ ce[1] >= i
     /\ ce[2] > ce[1]
     /\ \A k \in i..ce[1] - 1 : IsSpace(text[k])
     /\ \A k \in ce[1]..ce[2] - 1 : IsDot(text[k])
     /\ UrgencyTail(text, ce[2])}

\* urgencyMatch ? urgencyMatch[1].trim() : "": the leftmost start, the longest
\* \s*, then the shortest .+?
urgencyMatch(urgencyText) ==
  LET starts == {i \in 1..Len(urgencyText) : UrgencyCaptures(urgencyText, i) # {}}
      i      == SetMin(starts)
      caps   == UrgencyCaptures(urgencyText, i)
      c      == SetMax({ce[1] : ce \in caps})
      e      == SetMin({ce[2] : ce \in {x \in caps : x[1] = c}})
  IN  IF starts = {} THEN <<>> ELSE trim(SubSeq(urgencyText, c, e - 1))

(***************************************************************************)
(* Identifier slugs (generate-cache.mjs)                                   *)
(***************************************************************************)
\* a-z, 0-9 and -
SlugChars == (97..122) \cup (48..57) \cup {45}

\* .replace(/[^a-z0-9-]/g, '-')
replaceSpecialChars(s) == [k \in 1..Len(s) |-> IF s[k] \in SlugChars THEN s[k] ELSE 45]

\* .replace(/-+/g, '-')
RECURSIVE collapseHyphens(_)
collapseHyphens(s) ==
  IF Len(s) <= 1 THEN s
  ELSE IF s[1] = 45 /\ s[2] = 45 THEN collapseHyphens(Tail(s))
  ELSE <<s[1]>> \o collapseHyphens(Tail(s))

\* .replace(/^-|-$/g, '')
stripEdgeHyphens(s) ==
  LET a == IF Len(s) > 0 /\ s[1] = 45 THEN Tail(s) ELSE s
  IN  IF Len(a) > 0 /\ a[Len(a)] = 45 THEN SubSeq(a, 1, Len(a) - 1) ELSE a

\* .replace(/\.git$/, '')
stripGitSuffix(s) ==
  IF Len(s) >= 4 /\ StartsWithAt(s, Len(s) - 3, GitSuffix)
    THEN SubSeq(s, 1, Len(s) - 4) ELSE s

\* the chain of generate-cache.mjs:154, applied to the project name
normalizeName(s) ==
  stripEdgeHyphens(collapseHyphens(replaceSpecialChars(toLowerCase(s))))

\* group 1 of /github\.com\/[^\/]+\/([^\/\s]+)/i matched from position i:
\* <<>> when the expression does not match there
UrlMatchAt(url, i) ==
  LET o       == i + Len(GithubHost)
      slashes == {q \in o..Len(url) : url[q] = 47}
      q       == SetMin(slashes)
      bad     == {k \in q + 1..Len(url) : url[k] = 47 \/ IsSpace(url[k])}
      e       == IF bad = {} THEN Len(url) + 1 ELSE SetMin(bad)
  IN  IF ~StartsWithAtCI(url, i, GithubHost) \/ slashes = {} THEN <<>>
      ELSE IF q = o THEN <<>>
      ELSE SubSeq(url, q + 1, e - 1)

\* group 2 of /^([^\/]+)\/([^\/\s]+)$/: <<>> when there is no match
SlashMatch(url) ==
  LET slashes == {q \in 1..Len(url) : url[q] = 47}
      q       == SetMin(slashes)
  IN  IF Cardinality(slashes) # 1 THEN <<>>
      ELSE IF q = 1 \/ q = Len(url) THEN <<>>
      ELSE IF \E k \in q + 1..Len(url) : IsSpace(url[k]) THEN <<>>
      ELSE SubSeq(url, q + 1, Len(url))

generateWishlistId(repositoryUrl, issueNumber) ==
  LET starts   == {i \in 1..Len(repositoryUrl) : UrlMatchAt(repositoryUrl, i) # <<>>}
      urlMatch == IF starts = {} THEN <<>> ELSE UrlMatchAt(repositoryUrl, SetMin(starts))
      repoName == IF urlMatch # <<>> THEN urlMatch ELSE SlashMatch(repositoryUrl)
      cleaned  == stripEdgeHyphens(collapseHyphens(replaceSpecialChars(
                    stripGitSuffix(toLowerCase(repoName)))))
  IN  IF repoName = <<>>
        THEN WishlistPrefix \o <<45>> \o numberToString(issueNumber)
        ELSE cleaned \o <<45>> \o numberToString(issueNumber)

(***************************************************************************)
(* Tracker values.  issue.body and comment.body are null (<<>>) or a text  *)
(* (<<text>>); labels is the set of the label names; a comment's login is  *)
(* comment.user?.login.                                                    *)
(***************************************************************************)
Null == <<>>

Some(text) == <<text>>

\* value || "" of the source, for a value that is null or a string
OrEmpty(v) == IF v = Null THEN <<>> ELSE v[1]

\* a slip: any label at all counts as approval
isApprovedAnyLabel(labels) == labels # {}

isApproved(labels) == ApprovedLabel \in labels

(***************************************************************************)
(* Bounds and inputs                                                       *)
(***************************************************************************)
\* the most issues the tracker holds
MaxItems == 2

\* the most runs of the script in one behaviour
MaxRuns == 2

\* the comments one page of the comment listing carries; it stands for the
\* per_page: 100 of the source, small so that a listing has a later page
PerPage == 1

\* the most edits of issues in one behaviour
MaxEdits == 1

Variants == {"part_000", "part_001", "generate", "manage"}

FormSection(header, content) ==
  HeadingMarker \o <<32>> \o header \o <<10>> \o content \o <<10>>

BodyFoo ==
  FormSection(ProjectNameHeader, Str(<<"F", "o", "o">>))
    \o FormSection(PackageEcosystemsHeader, Str(<<"g", "o", ",", " ", "n", "p", "m", ",", " ", "g", "o">>))
    \o FormSection(ServicesRequestedHeader, Str(<<"-", " ", "[", "x", "]", " ", "A", "u", "d", "i", "t", "\n", "-", " ", "[", " ", "]", " ", "D", "o", "c", "s">>))
    \o FormSection(UrgencyLevelHeader, OptionHigh)

BodyBang ==
  FormSection(ProjectNameHeader, Str(<<"!", "!">>))
    \o FormSection(PackageEcosystemsHeader, Str(<<"_", "_", "p", "r", "o", "t", "o", "_", "_", ",", " ", "g", "o">>))
    \o FormSection(ServicesRequestedHeader, Str(<<"-", " ", "[", "x", "]", " ", "A", "u", "d", "i", "t", "\n", "-", " ", "[", "X", "]", " ", "D", "o", "c", "s">>))
    \o FormSection(UrgencyLevelHeader, NoResponse)

BodyRepo ==
  FormSection(RepositoryHeader, Str(<<"h", "t", "t", "p", "s", ":", "/", "/", "g", "i", "t", "h", "u", "b", ".", "c", "o", "m", "/", "A", "c", "m", "e", "/", "M", "y", ".", "R", "e", "p", "o", ".", "g", "i", "t">>))
    \o FormSection(ProjectNameHeader, Str(<<"B", "a", "r">>))
    \o FormSection(UrgencyLevelHeader, Str(<<"C", "r", "i", "t", "i", "c", "a", "l">>))

BodyPlain == Str(<<"h", "e", "l", "l", "o">>)

\* the bot's first edit of a form, and its later one
CommentFirst ==
  FormSection(ProjectNameHeader, Str(<<"O", "l", "d">>))
    \o FormSection(PackageEcosystemsHeader, Str(<<"g", "o">>))

CommentEdit ==
  FormSection(ProjectNameHeader, Str(<<"B", "a", "z">>))
    \o FormSection(PackageEcosystemsHeader, Str(<<"r", "u", "s", "t">>))
    \o FormSection(UrgencyLevelHeader, Str(<<"S", "o", "o", "n">>))

CommentThanks == Str(<<"T", "h", "a", "n", "k", "s", "!">>)

CommentEvil == FormSection(ProjectNameHeader, Str(<<"E", "v", "i", "l">>))

\* a comment: comment.user?.login, comment.body, and its timestamps, each
\* Null when absent (null or "") and Some(day) otherwise
Comment(login, body, created_at, updated_at) ==
  [login |-> login, body |-> body, created_at |-> created_at, updated_at |-> updated_at]

\* the issues the tracker may hold, by number; created_at grows with the number
IssueMenu ==
  <<[number |-> 1, state |-> "open", title |-> Str(<<"F", "o", "o">>), body |-> Some(BodyFoo),
     labels |-> {ApprovedLabel}, pull_request |-> FALSE,
     created_at |-> 1, updated_at |-> 6,
     comments |-> <<Comment(BotLogin, Some(CommentFirst), Some(6), Some(6)),
                    Comment(BotLogin, Some(CommentEdit), Some(7), Some(7)),
                    Comment(BotLogin, Some(CommentThanks), Some(7), Some(8)),
                    Comment("alice", Some(CommentEvil), Some(9), Some(9))>>],
    [number |-> 2, state |-> "open", title |-> Str(<<"T", "w", "o">>), body |-> Null,
     labels |-> {ApprovedLabel, "bug"}, pull_request |-> FALSE,
     created_at |-> 2, updated_at |-> 2,
     comments |-> <<>>],
    [number |-> 3, state |-> "open", title |-> Str(<<"B", "a", "n", "g">>), body |-> Some(BodyBang),
     labels |-> {ApprovedLabel}, pull_request |-> FALSE,
     created_at |-> 3, updated_at |-> 3,
     comments |-> <<Comment("alice", Some(CommentEvil), Some(9), Some(9))>>],
    [number |-> 4, state |-> "open", title |-> Str(<<"F", "i", "x">>), body |-> Some(BodyRepo),
     labels |-> {ApprovedLabel}, pull_request |-> TRUE,
     created_at |-> 4, updated_at |-> 4,
     comments |-> <<>>],
    [number |-> 5, state |-> "open", title |-> Str(<<"H", "i">>), body |-> Some(BodyPlain),
     labels |-> {"help-wanted"}, pull_request |-> FALSE,
     created_at |-> 5, updated_at |-> 5,
     comments |-> <<Comment(BotLogin, Null, Some(9), Null)>>]>>

\* the menu issues of a set of numbers, newest first as the tracker lists them
RECURSIVE newestFirst(_)
newestFirst(numbers) ==
  IF numbers = {} THEN <<>>
  ELSE <<IssueMenu[SetMax(numbers)]>> \o newestFirst(numbers \ {SetMax(numbers)})

Trackers ==
  {newestFirst(ns) : ns \in {x \in SUBSET (1..Len(IssueMenu)) : Cardinality(x) <= MaxItems}}

\* the menu issues an edit can copy: one with bot comments that carry a form
\* and a comment of another author, one without the approval label and with a
\* bot comment without body and without update time
EditTargets == {1, 5}

\* an edit of an open issue: its body, labels and comments become those of
\* a menu issue; its number, creation time and kind stay
editedIssue(issue, t) ==
  [issue EXCEPT !.body = IssueMenu[t].body, !.labels = IssueMenu[t].labels,
                !.comments = IssueMenu[t].comments,
                !.updated_at = IssueMenu[t].updated_at]

\* every text a run can read as a form: the bodies of the menu issues and of
\* their comments, and the empty text that stands for a null body
FormTexts ==
  {<<>>}
    \cup {OrEmpty(IssueMenu[k].body) : k \in 1..Len(IssueMenu)}
    \cup UNION {{OrEmpty(IssueMenu[k].comments[c].body) : c \in 1..Len(IssueMenu[k].comments)} :
                  k \in 1..Len(IssueMenu)}

(***************************************************************************)
(* part_001: getLatestFormData, after every page of comments has arrived   *)
(***************************************************************************)
\* a slip: the filter checks that the comment has an author, not who it is
IsCommentWithAuthor(comment) == comment.login # ""

\* comment.user?.login === "oss-wishlist-bot"
IsBotComment(comment) == comment.login = BotLogin

\* comment.body?.includes("###")
HasFormData(comment) ==
  comment.body # Null /\ includes(comment.body[1], HeadingMarker)

\* a slip: the bot comments are not reversed, so the oldest one with a form
\* is found
getLatestFormDataOldestForm(issue, allComments) ==
  LET botComments == SelectSeq(allComments, IsBotComment)
      withForm    == SelectSeq(botComments, HasFormData)
  IN  IF withForm # <<>> /\ OrEmpty(withForm[1].body) # <<>>
        THEN withForm[1].body[1]
        ELSE OrEmpty(issue.body)

\* [...botComments].reverse().find((c) => c.body?.includes("###")): the last
\* bot comment with a form; its body when there is one, issue.body || ""
\* otherwise

getLatestFormData(issue, allComments) ==
  LET botComments == SelectSeq(allComments, IsBotComment)
      withForm    == SelectSeq(botComments, HasFormData)
  IN  IF withForm # <<>> /\ OrEmpty(withForm[Len(withForm)].body) # <<>>
        THEN withForm[Len(withForm)].body[1]
        ELSE OrEmpty(issue.body)

\* a slip: the catch branch gives up the body
getLatestFormDataFallbackEmpty(issue) == <<>>

\* the catch branch of getLatestFormData
getLatestFormDataFallback(issue) == OrEmpty(issue.body)

(***************************************************************************)
(* part_000 and part_001: parseWishlistIssue.  The record keeps the fields *)
(* the checked properties read.                                            *)
(***************************************************************************)
\* the sections parseWishlistIssue extracts and decodes (part_001:94-102)
formFields(body) ==
  [projectName  |-> trim(extractSection(body, ProjectNameHeader)),
   wishes       |-> parseCheckboxes(extractSection(body, ServicesRequestedHeader)),
   technologies |-> parseCommaSeparated(extractSection(body, PackageEcosystemsHeader)),
   urgency      |-> urgencyMatch(extractSection(body, UrgencyLevelHeader))]

\* formFields over the form texts, computed once
formFieldsOf == [text \in FormTexts |-> formFields(text)]

buildWishlist(issue, labels, body) ==
  LET fields == formFieldsOf[body]
  IN  [id           |-> issue.number,
       projectName  |-> IF fields.projectName # <<>> THEN fields.projectName
                        ELSE WishlistColon \o issue.title,
       approved     |-> isApproved(labels),
       wishes       |-> fields.wishes,
       technologies |-> fields.technologies,
       urgency      |-> fields.urgency,
       status       |-> IF isApproved(labels) THEN "approved" ELSE "pending"]

parseWishlistIssue000(issue, labels) == buildWishlist(issue, labels, OrEmpty(issue.body))

parseWishlistIssue001(issue, labels, formData) == buildWishlist(issue, labels, formData)

(***************************************************************************)
(* generate-cache.mjs: getLatestUpdateTimestamp and parseWishlistIssue     *)
(***************************************************************************)
\* latestComment.updated_at || latestComment.created_at for a bot comment,
\* issue.updated_at otherwise; the answer is Null or Some(day)
getLatestUpdateTimestamp(issue, allComments) ==
  LET botComments == SelectSeq(allComments, IsBotComment)
  IN  IF Len(botComments) > 0
        THEN (LET latestComment == botComments[Len(botComments)]
              IN  IF latestComment.updated_at # Null
                    THEN latestComment.updated_at ELSE latestComment.created_at)
        ELSE Some(issue.updated_at)

\* the catch branch of getLatestUpdateTimestamp
getLatestUpdateTimestampFallback(issue) == Some(issue.updated_at)

\* the two sections generate-cache.mjs reads from the issue body (137-138)
genFields(body) ==
  [projectName   |-> trim(extractSection(body, ProjectNameHeader)),
   repositoryUrl |-> trim(extractSection(body, RepositoryHeader))]

\* genFields over the form texts, computed once
genFieldsOf == [text \in FormTexts |-> genFields(text)]

\* the identifier of generate-cache.mjs:152-154
wishlistIdOf(projectName, repositoryUrl, issueNumber) ==
  IF repositoryUrl # <<>>
    THEN generateWishlistId(repositoryUrl, issueNumber)
    ELSE normalizeName(projectName) \o <<45>> \o numberToString(issueNumber)

\* what parseWishlistIssue does before its await: "null" for an unapproved
\* issue, "threw" when extractSection reads .match of a null body, "await"
\* when it goes on to fetch the comments
parseWishlistIssueStart(issue, labels) ==
  IF ~isApproved(labels) THEN "null"
  ELSE IF issue.body = Null THEN "threw"
  ELSE "await"

\* the record it returns once getLatestUpdateTimestamp has answered
parseWishlistIssueGen(issue, updatedAt) ==
  LET fields == genFieldsOf[issue.body[1]]
  IN  [id            |-> wishlistIdOf(fields.projectName, fields.repositoryUrl, issue.number),
       projectName   |-> IF fields.projectName # <<>> THEN fields.projectName
                         ELSE WishlistHash \o numberToString(issue.number),
       repositoryUrl |-> fields.repositoryUrl,
       issueNumber   |-> issue.number,
       updatedAt     |-> updatedAt]

(***************************************************************************)
(* manage-cache.mjs: parseIssueForm                                        *)
(***************************************************************************)
BulletChecked == Str(<<"-", " ", "[", "x", "]", " ">>)

BulletCheckedUpper == Str(<<"-", " ", "[", "X", "]", " ">>)

\* the own properties of the object literal urgencyMap
urgencyMap ==
  [content \in {OptionLow, OptionMedium, OptionHigh, OptionCritical} |->
     IF content = OptionLow THEN LevelLow
     ELSE IF content = OptionMedium THEN LevelMedium
     ELSE IF content = OptionHigh THEN LevelHigh
     ELSE LevelCritical]

\* the names urgencyMap inherits from Object.prototype: urgencyMap[name] is
\* then a function or, for __proto__, the prototype object, never a string
InheritedKeys ==
  {Str(<<"c", "o", "n", "s", "t", "r", "u", "c", "t", "o", "r">>),
   Str(<<"t", "o", "S", "t", "r", "i", "n", "g">>),
   Str(<<"v", "a", "l", "u", "e", "O", "f">>),
   Str(<<"t", "o", "L", "o", "c", "a", "l", "e", "S", "t", "r", "i", "n", "g">>),
   Str(<<"h", "a", "s", "O", "w", "n", "P", "r", "o", "p", "e", "r", "t", "y">>),
   Str(<<"i", "s", "P", "r", "o", "t", "o", "t", "y", "p", "e", "O", "f">>),
   Str(<<"p", "r", "o", "p", "e", "r", "t", "y", "I", "s", "E", "n", "u", "m", "e", "r", "a", "b", "l", "e">>),
   Str(<<"_", "_", "p", "r", "o", "t", "o", "_", "_">>),
   Str(<<"_", "_", "d", "e", "f", "i", "n", "e", "G", "e", "t", "t", "e", "r", "_", "_">>),
   Str(<<"_", "_", "d", "e", "f", "i", "n", "e", "S", "e", "t", "t", "e", "r", "_", "_">>),
   Str(<<"_", "_", "l", "o", "o", "k", "u", "p", "G", "e", "t", "t", "e", "r", "_", "_">>),
   Str(<<"_", "_", "l", "o", "o", "k", "u", "p", "S", "e", "t", "t", "e", "r", "_", "_">>)}

\* what stands for such an inherited value: no text (no code unit is 65536)
InheritedValue == <<65536>>

\* urgencyMap[content] || 'medium'
urgencyOfContent(content) ==
  IF content \in DOMAIN urgencyMap THEN urgencyMap[content]
  ELSE IF content \in InheritedKeys THEN InheritedValue
  ELSE LevelMedium

\* String.prototype.replace(pattern, '') with a string pattern: the first
\* occurrence only
removeFirst(s, p) ==
  LET i == IndexOf(s, p)
  IN  IF i = 0 THEN s ELSE SubSeq(s, 1, i - 1) \o SubSeq(s, i + Len(p), Len(s))

\* line.replace(/^-\s*/, '')
stripBullet(line) ==
  LET rest == {k \in 2..Len(line) : ~IsSpace(line[k])}
  IN  IF Len(line) = 0 \/ line[1] # 45 THEN line
      ELSE IF rest = {} THEN <<>>
      ELSE SubSeq(line, SetMin(rest), Len(line))

RECURSIVE flatten(_)
flatten(lists) == IF lists = <<>> THEN <<>> ELSE lists[1] \o flatten(Tail(lists))

\* manage-cache.mjs:27-40; <<>> stands for the absent technologies property
parsePackageEcosystems(body) ==
  LET parts   == split(body, HeadingMarker \o <<32>> \o PackageEcosystemsHeader)
      section == IF Len(parts) < 2 THEN <<>> ELSE trim(split(parts[2], HeadingMarker)[1])
      lines   == split(section, <<10>>)
      cleaned == [k \in 1..Len(lines) |-> trim(stripBullet(lines[k]))]
      kept    == SelectSeq(cleaned, LAMBDA l : l # <<>> /\ l # NoResponse)
      pieces  == [k \in 1..Len(kept) |-> trimAndDropEmpty(split(kept[k], <<44>>))]
  IN  IF section = <<>> THEN <<>> ELSE flatten(pieces)

\* line.replace(/- \[[xX]\] /, '').trim()
uncheckLine(line) ==
  LET hits == {i \in 1..Len(line) :
                 StartsWithAt(line, i, BulletChecked) \/ StartsWithAt(line, i, BulletCheckedUpper)}
      i    == SetMin(hits)
  IN  IF hits = {} THEN trim(line)
      ELSE trim(SubSeq(line, 1, i - 1) \o SubSeq(line, i + 6, Len(line)))

\* the loop of manage-cache.mjs:83-91 over the lines of one section
RECURSIVE checkedServices(_)
checkedServices(lines) ==
  IF lines = <<>> THEN <<>>
  ELSE LET line    == lines[1]
           service == uncheckLine(line)
           push    == /\ includes(line, BulletChecked) \/ includes(line, BulletCheckedUpper)
                      /\ service # <<>>
                      /\ service # NoResponse
       IN  (IF push THEN <<service>> ELSE <<>>) \o checkedServices(Tail(lines))

\* body.split('###').map(trim).filter(Boolean), each as [header, content]
formSections(body) ==
  LET raw  == trimAndDropEmpty(split(body, HeadingMarker))
  IN  [k \in 1..Len(raw) |->
         LET lines == split(raw[k], <<10>>)
         IN  [header  |-> trim(lines[1]),
              content |-> trim(join(Tail(lines), <<10>>))]]

\* the switch of manage-cache.mjs:49-174, one section after the other
RECURSIVE applySections(_, _)
applySections(sections, result) ==
  IF sections = <<>> THEN result
  ELSE LET sec == sections[1]
           next ==
             IF sec.header = ProjectNameHeader
               THEN [result EXCEPT !.project = trim(removeFirst(sec.content, NoResponse))]
             ELSE IF sec.header = UrgencyLevelHeader
               THEN [result EXCEPT !.urgency = urgencyOfContent(sec.content)]
             ELSE IF sec.header = ServicesRequestedHeader
               THEN [result EXCEPT !.services =
                       @ \o checkedServices(split(sec.content, <<10>>))]
             ELSE result
       IN  applySections(Tail(sections), next)

parseIssueForm(body) ==
  applySections(formSections(body),
                [project |-> <<>>, urgency |-> LevelMedium, services |-> <<>>,
                 technologies |-> parsePackageEcosystems(body)])

\* the wishlist object of manage-cache.mjs:204-225
\* parseIssueForm over the form texts, computed once
parseIssueFormOf == [text \in FormTexts |-> parseIssueForm(text)]

manageWishlist(issue) ==
  LET parsed == parseIssueFormOf[OrEmpty(issue.body)]
  IN  [id           |-> issue.number,
       projectName  |-> IF parsed.project # <<>> THEN parsed.project ELSE issue.title,
       status       |-> IF issue.state = "open" THEN "Open" ELSE "Closed",
       created_at   |-> issue.created_at,
       wishes       |-> parsed.services,
       technologies |-> parsed.technologies,
       urgency      |-> parsed.urgency]

\* Array.prototype.sort (stable) with the comparator b.created_at - a.created_at
RECURSIVE insertByCreatedDesc(_, _)
insertByCreatedDesc(sorted, w) ==
  IF sorted = <<>> THEN <<w>>
  ELSE IF sorted[1].created_at >= w.created_at
    THEN <<sorted[1]>> \o insertByCreatedDesc(Tail(sorted), w)
    ELSE <<w>> \o sorted

RECURSIVE sortByCreatedDesc(_)
sortByCreatedDesc(ws) ==
  IF ws = <<>> THEN <<>>
  ELSE insertByCreatedDesc(sortByCreatedDesc(SubSeq(ws, 1, Len(ws) - 1)), ws[Len(ws)])

(***************************************************************************)
(* The aggregate of part_000 and part_001                                  *)
(***************************************************************************)
\* acc[key] = value on a plain object: an own property, except for the key
\* "__proto__", whose assignment goes to the prototype setter and, the value
\* being a number, changes nothing
SetProperty(acc, key, value) ==
  IF key = ProtoKey THEN acc
  ELSE [k \in (DOMAIN acc) \cup {key} |-> IF k = key THEN value ELSE acc[k]]

\* wishlists.filter((w) => w.<list>.includes(name)).length
countIncluding(lists, name) ==
  Cardinality({k \in 1..Len(lists) : name \in Range(lists[k])})

\* keys.reduce((acc, key) => { acc[key] = count; return acc }, {}); the keys
\* are distinct, so the order .sort() gave them does not change the object
RECURSIVE reduceStats(_, _, _)
reduceStats(keys, lists, acc) ==
  IF keys = {} THEN acc
  ELSE LET key == CHOOSE k \in keys : TRUE
       IN  reduceStats(keys \ {key}, lists, SetProperty(acc, key, countIncluding(lists, key)))

\* [...new Set(wishlists.flatMap((w) => w.<list>))]
distinctValues(lists) == UNION {Range(lists[k]) : k \in 1..Len(lists)}

statsOf(lists) == reduceStats(distinctValues(lists), lists, <<>>)

\* a slip: the filter keeps every record
approvedCountAll(wishlists) == Len(wishlists)

approvedCountOf(wishlists) == Len(SelectSeq(wishlists, LAMBDA w : w.approved))

cacheData(wishlists) ==
  [version        |-> "1.0.0",
   totalWishlists |-> Len(wishlists),
   approvedCount  |-> approvedCountOf(wishlists),
   pendingCount   |-> Len(wishlists) - approvedCountOf(wishlists),
   ecosystemStats |-> statsOf([k \in 1..Len(wishlists) |-> wishlists[k].technologies]),
   serviceStats   |-> statsOf([k \in 1..Len(wishlists) |-> wishlists[k].wishes]),
   wishlists      |-> wishlists]

\* generate-cache.mjs:203-208
cacheDataGen(wishlists) ==
  [version |-> "2.0.0", totalWishlists |-> Len(wishlists), wishlists |-> wishlists]

\* manage-cache.mjs:231-240
cacheManage(wishlists) ==
  [schema_version |-> "1.0.0",
   wishlists      |-> sortByCreatedDesc(wishlists),
   count          |-> Len(wishlists)]

(***************************************************************************)
(* State                                                                   *)
(***************************************************************************)
VARIABLES
  variant,    \* the script that is deployed
  tracker,    \* the open issues of oss-wishlist/wishlists, newest first
  pc,         \* "idle", "listing" (await octokit.paginate), "parsing" (await Promise.all)
  issues,     \* what octokit.paginate returned to this run
  tasks,      \* the promises parseWishlistIssue returned, one per mapped issue,
              \* each with the comments fetched so far and its outcome
  cacheFile,  \* all-wishlists.json: Null, or Some(the document written)
  exitCode,   \* Null while the process runs, Some(0) or Some(1) once it ended
  caught,     \* what the catch of generateCache caught: "none", "list", "parse"
  runs,       \* the runs started so far
  stale,      \* an issue was edited since the last run started
  edits       \* the edits of issues so far

vars == <<variant, tracker, pc, issues, tasks, cacheFile, exitCode, caught, runs, stale, edits>>

IsAsync == variant \in {"part_001", "generate"}

notPullRequest(issue) == ~issue.pull_request

\* GET /repos/{owner}/{repo}/issues with state: "open" and, in
\* generate-cache.mjs, labels: "approved-wishlist"
listIssues(open) ==
  IF variant = "generate"
    THEN SelectSeq(open, LAMBDA issue : ApprovedLabel \in issue.labels)
    ELSE open

\* issues.filter((issue) => !issue.pull_request)
mappedIssues(listed) == SelectSeq(listed, notPullRequest)

\* the issue of a given number as the tracker holds it now
trackerIssue(number) == CHOOSE issue \in Range(tracker) : issue.number = number

\* pages of the comment listing of an issue
numPages(comments) ==
  IF Len(comments) = 0 THEN 1 ELSE (Len(comments) + PerPage - 1) \div PerPage

pageOf(comments, p) ==
  SubSeq(comments, (p - 1) * PerPage + 1,
         IF p * PerPage < Len(comments) THEN p * PerPage ELSE Len(comments))

Init ==
  /\ variant \in Variants
  /\ tracker \in Trackers
  /\ pc = "idle"
  /\ issues = <<>>
  /\ tasks = <<>>
  /\ cacheFile = Null
  /\ exitCode = Null
  /\ caught = "none"
  /\ runs = 0
  /\ stale = FALSE
  /\ edits = 0

(***************************************************************************)
(* A run of generateCache                                                  *)
(***************************************************************************)
\* the workflow starts the script
Start ==
  /\ pc = "idle"
  /\ runs < MaxRuns
  /\ pc' = "listing"
  /\ runs' = runs + 1
  /\ issues' = <<>>
  /\ tasks' = <<>>
  /\ exitCode' = Null
  /\ caught' = "none"
  /\ stale' = FALSE
  /\ edits' = edits
  /\ UNCHANGED <<variant, tracker, cacheFile>>

\* a slip: the catch writes an empty cache before it exits
exitOnErrorTruncates(what) ==
  /\ pc' = "idle"
  /\ caught' = what
  /\ exitCode' = Some(1)
  /\ cacheFile' = Some(cacheDataGen(<<>>))

\* catch (error) { console.error(...); process.exit(1) }
exitOnError(what) ==
  /\ pc' = "idle"
  /\ caught' = what
  /\ exitCode' = Some(1)
  /\ UNCHANGED cacheFile

\* fs.writeFileSync("all-wishlists.json", ...) and the normal end
writeAndExit(document) ==
  /\ cacheFile' = Some(document)
  /\ pc' = "idle"
  /\ exitCode' = Some(0)
  /\ UNCHANGED caught

\* octokit.paginate of the issues throws
ListFail ==
  /\ pc = "listing"
  /\ exitOnError("list")
  /\ UNCHANGED <<variant, tracker, issues, tasks, runs, stale, edits>>

\* part_000 and manage-cache.mjs: the listing returns and the rest of
\* generateCache runs without another await
ListOkSync ==
  /\ pc = "listing"
  /\ ~IsAsync
  /\ issues' = listIssues(tracker)
  /\ LET mapped == IF variant = "manage" THEN issues' ELSE mappedIssues(issues')
         wishlists == [k \in 1..Len(mapped) |->
                         IF variant = "manage" THEN manageWishlist(mapped[k])
                         ELSE parseWishlistIssue000(mapped[k], mapped[k].labels)]
     IN  writeAndExit(IF variant = "manage" THEN cacheManage(wishlists)
                      ELSE cacheData(wishlists))
  /\ UNCHANGED <<variant, tracker, tasks, runs, stale, edits>>

\* the promise of parseWishlistIssue(issue, issue.labels) at its first await
startTask(issue) ==
  LET start == IF variant = "generate"
                 THEN parseWishlistIssueStart(issue, issue.labels) ELSE "await"
  IN  [issue  |-> issue,
       state  |-> IF start = "await" THEN "fetching" ELSE start,
       page   |-> 1,
       acc    |-> <<>>,
       failed |-> FALSE,
       value  |-> Null,
       record |-> Null,
       settledAt |-> 0]

\* part_001 and generate-cache.mjs: the listing returns and every issue that
\* is no pull request is mapped to a promise
ListOkAsync ==
  /\ pc = "listing"
  /\ IsAsync
  /\ issues' = listIssues(tracker)
  /\ tasks' = [k \in 1..Len(mappedIssues(issues')) |-> startTask(mappedIssues(issues')[k])]
  /\ pc' = "parsing"
  /\ UNCHANGED <<variant, tracker, cacheFile, exitCode, caught, runs, stale, edits>>

\* a task whose comment listing ended, with all comments or with an error;
\* settledAt records its place in the order in which the promises resolved
settled(task, allComments, failed) ==
  LET value == IF variant = "part_001"
                 THEN (IF failed THEN getLatestFormDataFallback(task.issue)
                       ELSE getLatestFormData(task.issue, allComments))
                 ELSE (IF failed THEN getLatestUpdateTimestampFallback(task.issue)
                       ELSE getLatestUpdateTimestamp(task.issue, allComments))
  IN  [task EXCEPT !.state  = "done",
                   !.acc    = allComments,
                   !.failed = failed,
                   !.value  = Some(value),
                   !.settledAt =
                     Cardinality({j \in 1..Len(tasks) : tasks[j].state = "done"}) + 1,
                   !.record = Some(IF variant = "part_001"
                                     THEN parseWishlistIssue001(task.issue, task.issue.labels, value)
                                     ELSE parseWishlistIssueGen(task.issue, value))]

someTaskThrew == \E k \in 1..Len(tasks) : tasks[k].state = "threw"

\* a page of comments arrives: the comments the tracker holds for the issue
\* at that moment
FetchPageOk(k) ==
  /\ pc = "parsing"
  /\ ~someTaskThrew
  /\ tasks[k].state = "fetching"
  /\ LET task     == tasks[k]
         comments == trackerIssue(task.issue.number).comments
         acc      == task.acc \o pageOf(comments, task.page)
     IN  tasks' = [tasks EXCEPT ![k] =
                     IF task.page < numPages(comments)
                       THEN [task EXCEPT !.page = @ + 1, !.acc = acc]
                       ELSE settled(task, acc, FALSE)]
  /\ UNCHANGED <<variant, tracker, pc, issues, cacheFile, exitCode, caught, runs, stale, edits>>

\* the request for a page of comments throws
FetchPageFail(k) ==
  /\ pc = "parsing"
  /\ ~someTaskThrew
  /\ tasks[k].state = "fetching"
  /\ tasks' = [tasks EXCEPT ![k] = settled(tasks[k], tasks[k].acc, TRUE)]
  /\ UNCHANGED <<variant, tracker, pc, issues, cacheFile, exitCode, caught, runs, stale, edits>>

\* a slip: the results are collected in the order in which the promises
\* resolved
resultsOfCompletionOrder(ts) ==
  LET done == SelectSeq(ts, LAMBDA t : t.state = "done")
  IN  [j \in 1..Len(done) |->
         done[CHOOSE k \in 1..Len(done) : done[k].settledAt = j].record[1]]

\* the results of Promise.all, in the order of the mapped issues, without the
\* nulls of generate-cache.mjs
RECURSIVE resultsOf(_)
resultsOf(ts) ==
  IF ts = <<>> THEN <<>>
  ELSE (IF ts[1].state = "null" THEN <<>> ELSE <<ts[1].record[1]>>) \o resultsOf(Tail(ts))

\* Promise.all resolves: the aggregate is built and the cache written
Finish ==
  /\ pc = "parsing"
  /\ \A k \in 1..Len(tasks) : tasks[k].state \in {"done", "null"}
  /\ writeAndExit(IF variant = "part_001" THEN cacheData(resultsOf(tasks))
                  ELSE cacheDataGen(resultsOf(tasks)))
  /\ UNCHANGED <<variant, tracker, issues, tasks, runs, stale, edits>>

\* Promise.all rejects
Reject ==
  /\ pc = "parsing"
  /\ someTaskThrew
  /\ exitOnError("parse")
  /\ UNCHANGED <<variant, tracker, issues, tasks, runs, stale, edits>>

\* somebody edits an open issue: between two runs, or during a run while the
\* comments of that issue are still being fetched (an edit during a run of an
\* issue whose comments are not being fetched is seen by the next run only,
\* like an edit after the run).  At most one edit from the start of a run to
\* the start of the next, and at most MaxEdits in all.
EditIssue(i, t) ==
  /\ \/ pc = "idle" /\ runs >= 1 /\ runs < MaxRuns
     \/ /\ pc = "parsing"
        /\ ~someTaskThrew
        /\ \E k \in 1..Len(tasks) :
             tasks[k].state = "fetching" /\ tasks[k].issue.number = tracker[i].number
  /\ ~stale
  /\ edits < MaxEdits
  /\ tracker[i] # editedIssue(tracker[i], t)
  /\ tracker' = [tracker EXCEPT ![i] = editedIssue(tracker[i], t)]
  /\ stale' = TRUE
  /\ edits' = edits + 1
  /\ UNCHANGED <<variant, pc, issues, tasks, cacheFile, exitCode, caught, runs>>

Next ==
  \/ Start
  \/ ListFail
  \/ ListOkSync
  \/ ListOkAsync
  \/ \E k \in 1..Len(tasks) : FetchPageOk(k)
  \/ \E k \in 1..Len(tasks) : FetchPageFail(k)
  \/ Finish
  \/ Reject
  \/ \E i \in 1..Len(tracker), t \in EditTargets : EditIssue(i, t)

Spec == Init /\ [][Next]_vars

(***************************************************************************)
(* Checked properties                                                      *)
(***************************************************************************)
\* the document in all-wishlists.json
cache == cacheFile[1]

\* the number of the issue a record was built from
itemNumber(r) == IF variant = "generate" THEN r.issueNumber ELSE r.id

\* the listed issue with a given number
listedIssue(n) == CHOOSE issue \in Range(issues) : issue.number = n

\* a run whose listing succeeded has ended
ranPastListing == pc = "idle" /\ runs >= 1 /\ caught # "list"

\* C1: in every variant, a step in which the issue listing fails ends the run
\* with exit status 1 and leaves all-wishlists.json as the earlier runs left it.
C1_ListFailureKeepsCache ==
  [][(pc = "listing" /\ caught' = "list")
       => (pc' = "idle" /\ exitCode' = Some(1) /\ cacheFile' = cacheFile)]_vars

\* a second run fails to list the issues after a first run wrote the cache
C1_Witness ==
  caught = "list" /\ exitCode = Some(1) /\ cacheFile # Null /\ runs = 2

\* C2: in part_001, a task whose comment listing threw, on whichever page,
\* resolved the form text to the issue's body (the empty text for a null
\* body); the run is not aborted: once it ends, it ended with exit status 0
\* and the cache holds the record of every task, in order, the record of a
\* failed task being the one built from the body.
C2_CommentFailureFallsBack ==
  variant = "part_001" =>
    /\ \A k \in 1..Len(tasks) :
         tasks[k].failed =>
           /\ tasks[k].state = "done"
           /\ tasks[k].value = Some(OrEmpty(tasks[k].issue.body))
           /\ tasks[k].record =
                Some(parseWishlistIssue000(tasks[k].issue, tasks[k].issue.labels))
    /\ ranPastListing =>
         /\ exitCode = Some(0)
         /\ cacheFile # Null
         /\ cache.wishlists = [k \in 1..Len(tasks) |-> tasks[k].record[1]]
         /\ Len(tasks) = Len(mappedIssues(issues))

\* a comment listing failed on its second page, for an issue that has a body,
\* and the cache was written with that issue's record
C2_Witness ==
  /\ variant = "part_001"
  /\ exitCode = Some(0)
  /\ \E k \in 1..Len(tasks) :
       /\ tasks[k].failed
       /\ tasks[k].acc # <<>>
       /\ tasks[k].issue.body # Null
       /\ cacheFile # Null
       /\ cache.wishlists[k].id = tasks[k].issue.number

\* C3: in every variant, a run whose listing succeeded builds a record for
\* every item it maps, whatever the body (null, or without form sections):
\* it ends with exit status 0 and the cache holds one record per item.
C3_NoRecordBuildError ==
  ranPastListing =>
    /\ exitCode = Some(0)
    /\ cacheFile # Null
    /\ Len(cache.wishlists) =
         Len(IF variant = "manage" THEN issues ELSE mappedIssues(issues))

\* the positions of the bot comments, and of those that carry a "###"
botPositions(comments) == {j \in 1..Len(comments) : comments[j].login = BotLogin}

hasMarker(comment) == comment.body # Null /\ includes(comment.body[1], HeadingMarker)

formPositions(comments) == {j \in botPositions(comments) : hasMarker(comments[j])}

\* C4 as claimed: the most recent bot comment among the comments the listing
\* delivered decides; when it has no "###" the result is the original body,
\* whatever older bot comments contain.
C4_LatestBotCommentDecides ==
  variant = "part_001" =>
    \A k \in 1..Len(tasks) :
      (tasks[k].state = "done" /\ ~tasks[k].failed) =>
        LET comments == tasks[k].acc
            bots     == botPositions(comments)
        IN  tasks[k].value =
              Some(IF bots # {} /\ hasMarker(comments[SetMax(bots)])
                     THEN comments[SetMax(bots)].body[1]
                     ELSE OrEmpty(tasks[k].issue.body))

\* C4 as amended: getLatestFormData has read every comment the listing
\* delivered (all the comments of the issue when nobody edited an issue during
\* the run), and it returns the text of the most recent bot comment among
\* them that contains "###"; only when no bot comment contains "###" does it
\* return the original body (the empty text for a null body).
C4_LatestBotFormDecides ==
  variant = "part_001" =>
    \A k \in 1..Len(tasks) :
      (tasks[k].state = "done" /\ ~tasks[k].failed) =>
        LET comments == tasks[k].acc
            forms    == formPositions(comments)
        IN  /\ ~stale => comments = trackerIssue(tasks[k].issue.number).comments
            /\ tasks[k].value =
                 Some(IF forms # {} THEN comments[SetMax(forms)].body[1]
                      ELSE OrEmpty(tasks[k].issue.body))

\* two bot comments carry different forms and a later bot comment carries
\* none: the text of the later of the two forms was returned, not the older
\* form and not the body
C4_Witness ==
  /\ variant = "part_001"
  /\ \E k \in 1..Len(tasks) :
       LET comments == tasks[k].acc
           bots     == botPositions(comments)
           forms    == formPositions(comments)
       IN  /\ tasks[k].state = "done" /\ ~tasks[k].failed
           /\ Cardinality(forms) >= 2
           /\ comments[SetMin(forms)].body # comments[SetMax(forms)].body
           /\ SetMax(forms) < SetMax(bots)
           /\ tasks[k].value = Some(comments[SetMax(forms)].body[1])
           /\ tasks[k].value # comments[SetMin(forms)].body
           /\ tasks[k].value # Some(OrEmpty(tasks[k].issue.body))

\* C5: in every variant, after a run wrote the cache, its records are those
\* of the listed issues that are not pull requests, one each.
C5_NoPullRequestRecord ==
  exitCode = Some(0) =>
    /\ {itemNumber(r) : r \in Range(cache.wishlists)} =
         {issue.number : issue \in Range(mappedIssues(issues))}
    /\ Len(cache.wishlists) = Len(mappedIssues(issues))

\* C6: after a run of part_000 or part_001 wrote the cache, every record has
\* approved = TRUE and status "approved" exactly when its issue carries the
\* label approved-wishlist, and status "pending" otherwise, so records of
\* issues with equal label sets agree; after a run of generate-cache.mjs the
\* records are those of the mapped issues that carry the label.
C6_ApprovalFromLabels ==
  exitCode = Some(0) =>
    /\ variant \in {"part_000", "part_001"} =>
         /\ \A r \in Range(cache.wishlists) :
              /\ r.approved = (ApprovedLabel \in listedIssue(r.id).labels)
              /\ r.status = (IF ApprovedLabel \in listedIssue(r.id).labels
                               THEN "approved" ELSE "pending")
         /\ \A r1, r2 \in Range(cache.wishlists) :
              listedIssue(r1.id).labels = listedIssue(r2.id).labels
                => (r1.approved = r2.approved /\ r1.status = r2.status)
    /\ variant = "generate" =>
         {r.issueNumber : r \in Range(cache.wishlists)} =
           {issue.number : issue \in
              {x \in Range(mappedIssues(issues)) : ApprovedLabel \in x.labels}}

\* a cache with an approved record and with a pending record whose issue has
\* a label that is not the approval label
C6_Witness ==
  /\ exitCode = Some(0)
  /\ variant \in {"part_000", "part_001"}
  /\ \E r \in Range(cache.wishlists) : r.approved
  /\ \E r \in Range(cache.wishlists) :
       ~r.approved /\ listedIssue(r.id).labels # {}

recordsWithStatus(status) ==
  Cardinality({k \in 1..Len(cache.wishlists) : cache.wishlists[k].status = status})

\* C7: in every cache that carries the counts (part_000, part_001),
\* approvedCount + pendingCount = totalWishlists, approvedCount and
\* pendingCount are the numbers of records with status "approved" and
\* "pending", and totalWishlists is the length of wishlists.
C7_CountsAddUp ==
  (cacheFile # Null /\ variant \in {"part_000", "part_001"}) =>
    /\ cache.approvedCount + cache.pendingCount = cache.totalWishlists
    /\ cache.approvedCount = recordsWithStatus("approved")
    /\ cache.pendingCount = recordsWithStatus("pending")
    /\ cache.totalWishlists = Len(cache.wishlists)

\* a cache that counts an approved and a pending record
C7_Witness ==
  /\ cacheFile # Null
  /\ variant \in {"part_000", "part_001"}
  /\ cache.approvedCount >= 1
  /\ cache.pendingCount >= 1

\* the records whose list (technologies or wishes) contains a value
recordsListing(lists, value) ==
  Cardinality({k \in 1..Len(lists) : \E j \in 1..Len(lists[k]) : lists[k][j] = value})

statsMatch(stats, lists) ==
  /\ DOMAIN stats = UNION {{lists[k][j] : j \in 1..Len(lists[k])} : k \in 1..Len(lists)}
  /\ \A value \in DOMAIN stats : stats[value] = recordsListing(lists, value)

\* C8: in every cache of part_000 and part_001 the keys of ecosystemStats are
\* the distinct technologies of the records and each value is the number of
\* records that list the key; serviceStats likewise for the wishes.
C8_StatsCountEveryValue ==
  (cacheFile # Null /\ variant \in {"part_000", "part_001"}) =>
    /\ statsMatch(cache.ecosystemStats,
                  [k \in 1..Len(cache.wishlists) |-> cache.wishlists[k].technologies])
    /\ statsMatch(cache.serviceStats,
                  [k \in 1..Len(cache.wishlists) |-> cache.wishlists[k].wishes])

\* C9: in generate-cache.mjs a record without repository URL has the id
\* <normalized project name>-<number>, and wishlist-<number> when the project
\* name is absent or normalizes to the empty text.
C9_IdFromProjectName ==
  (variant = "generate" /\ exitCode = Some(0)) =>
    \A r \in Range(cache.wishlists) :
      r.repositoryUrl = <<>> =>
        LET name == normalizeName(
                      trim(extractSection(listedIssue(r.issueNumber).body[1],
                                          ProjectNameHeader)))
        IN  r.id = (IF name = <<>> THEN WishlistPrefix ELSE name)
                     \o <<45>> \o numberToString(r.issueNumber)

\* C10: whenever the cache is rewritten, a record of an issue that the old
\* cache already held keeps its id.
C10_IdStableAcrossRuns ==
  [][(cacheFile # Null /\ cacheFile' # Null) =>
       \A r \in Range(cacheFile[1].wishlists), q \in Range(cacheFile'[1].wishlists) :
         itemNumber(r) = itemNumber(q) => r.id = q.id]_vars

\* the record at position k of the cache the run just wrote was built from
\* this form text: the body in part_000 and manage-cache.mjs, what
\* getLatestFormData answered in part_001
formTextOfRecord(k) ==
  IF variant = "part_001" THEN tasks[k].value[1]
  ELSE OrEmpty(listedIssue(cache.wishlists[k].id).body)

CheckedMarkerUpper == Str(<<"[", "X", "]">>)

hasCheckedMarker(line) ==
  includes(line, CheckedMarker) \/ includes(line, CheckedMarkerUpper)

\* the label of a line: the line without its first checked marker and
\* without a leading list bullet, trimmed
labelOfLine(line) ==
  LET marks == {i \in 1..Len(line) :
                  StartsWithAt(line, i, CheckedMarker)
                    \/ StartsWithAt(line, i, CheckedMarkerUpper)}
      i     == SetMin(marks)
      rest  == IF marks = {} THEN line
               ELSE SubSeq(line, 1, i - 1) \o SubSeq(line, i + 3, Len(line))
      t     == trim(rest)
      after == {k \in 2..Len(t) : ~IsSpace(t[k])}
  IN  IF Len(t) > 0 /\ t[1] = 45
        THEN (IF after = {} THEN <<>> ELSE SubSeq(t, SetMin(after), Len(t)))
        ELSE t

\* a line that has to contribute an entry
isCheckedLine(line) ==
  /\ hasCheckedMarker(line)
  /\ labelOfLine(line) # <<>>
  /\ labelOfLine(line) # NoResponse

checkedLinesOf(block) == SelectSeq(split(block, <<10>>), isCheckedLine)

\* C11: in every cache the checkbox decoder contributed to (part_000,
\* part_001, manage-cache.mjs), the wishes of a record have one entry per line
\* of the Services Requested block that carries a checked marker, "[x]" or
\* "[X]", and a non-empty label, in the order of the lines, each entry taken
\* from its line; no entry is empty or the placeholder _No response_.
C11_CheckedLinesDecoded ==
  (exitCode = Some(0) /\ variant \in {"part_000", "part_001", "manage"}) =>
    \A k \in 1..Len(cache.wishlists) :
      LET wishes == cache.wishlists[k].wishes
          lines  == checkedLinesOf(extractSection(formTextOfRecord(k),
                                                  ServicesRequestedHeader))
      IN  /\ Len(wishes) = Len(lines)
          /\ \A j \in 1..Len(wishes) :
               /\ wishes[j] # <<>>
               /\ wishes[j] # NoResponse
               /\ j <= Len(lines) => includes(lines[j], wishes[j])

UrgencyLevels == {LevelLow, LevelMedium, LevelHigh, LevelCritical}

\* the level an Urgency Level block stands for: that of a recognised option,
\* written with or without its description, and medium for anything else
levelOfBlock(block) ==
  IF block \in {OptionLow, Str(<<"L", "o", "w">>)} THEN LevelLow
  ELSE IF block \in {OptionHigh, Str(<<"H", "i", "g", "h">>)} THEN LevelHigh
  ELSE IF block \in {OptionCritical, Str(<<"C", "r", "i", "t", "i", "c", "a", "l">>)} THEN LevelCritical
  ELSE LevelMedium

\* C12: in every cache whose records carry an urgency (part_000, part_001,
\* manage-cache.mjs), the urgency of a record is one of low, medium, high,
\* critical: the lowercase level of the recognised option in the Urgency
\* Level block of its form text, written with or without the description,
\* and medium when the block is absent, _No response_ or unrecognised.
C12_UrgencyInClosedSet ==
  (exitCode = Some(0) /\ variant \in {"part_000", "part_001", "manage"}) =>
    \A k \in 1..Len(cache.wishlists) :
      /\ cache.wishlists[k].urgency \in UrgencyLevels
      /\ cache.wishlists[k].urgency =
           levelOfBlock(extractSection(formTextOfRecord(k), UrgencyLevelHeader))

\* the record of a task's issue when the issue is processed on its own, with
\* the comments its listing delivered, or with the listing failing as it did
\* for this task
oneAtATime(task) ==
  IF variant = "part_001"
    THEN parseWishlistIssue001(task.issue, task.issue.labels,
           IF task.failed THEN getLatestFormDataFallback(task.issue)
           ELSE getLatestFormData(task.issue, task.acc))
    ELSE parseWishlistIssueGen(task.issue,
           IF task.failed THEN getLatestUpdateTimestampFallback(task.issue)
           ELSE getLatestUpdateTimestamp(task.issue, task.acc))

\* the document a run writes that processes the mapped issues one at a time,
\* in the order of the listing
oneAtATimeCache ==
  LET mapped    == mappedIssues(issues)
      wishlists == [k \in 1..Len(mapped) |-> oneAtATime(tasks[k])]
  IN  IF variant = "part_001" THEN cacheData(wishlists) ELSE cacheDataGen(wishlists)

\* C13: in part_001 and generate-cache.mjs, whose comment fetches run
\* concurrently, the cache is not touched while a task is still fetching; the
\* step that writes it ends the run, is taken only when every task has
\* produced its record, and writes the wishlists and the statistics that
\* processing the mapped issues one at a time in listing order gives,
\* whatever the order in which the fetches completed or failed.
C13_JoinThenWriteInListingOrder ==
  [][IsAsync =>
       /\ (pc = "parsing" /\ \E k \in 1..Len(tasks) : tasks[k].state = "fetching")
            => cacheFile' = cacheFile
       /\ (cacheFile' # cacheFile \/ (exitCode # Some(0) /\ exitCode' = Some(0)))
            => /\ pc = "parsing" /\ pc' = "idle"
               /\ Len(tasks) = Len(mappedIssues(issues))
               /\ \A k \in 1..Len(tasks) :
                    /\ tasks[k].state = "done"
                    /\ tasks[k].issue = mappedIssues(issues)[k]
               /\ cacheFile' = Some(oneAtATimeCache)]_vars

\* a cache written after the second issue's fetch completed before the first
\* one's, one of the two fetches having failed
C13_Witness ==
  /\ IsAsync
  /\ exitCode = Some(0)
  /\ Len(tasks) = 2
  /\ tasks[2].settledAt < tasks[1].settledAt
  /\ tasks[1].failed # tasks[2].failed
  /\ cache.wishlists = <<oneAtATime(tasks[1]), oneAtATime(tasks[2])>>
  /\ cache.wishlists[1] # cache.wishlists[2]

\* the comments of the bot, in order
commentsOfBot(comments) == [j \in 1..Cardinality(botPositions(comments)) |->
  comments[CHOOSE p \in botPositions(comments) :
             Cardinality({q \in botPositions(comments) : q <= p}) = j]]

\* comments with one more comment of another author at position p
withForeignComment(comments, p, body) ==
  SubSeq(comments, 1, p - 1) \o <<Comment("mallory", Some(body), Some(10), Some(10))>>
    \o SubSeq(comments, p, Len(comments))

\* the comment lists the menu issues have
MenuListings == {IssueMenu[t].comments : t \in 1..Len(IssueMenu)}

\* the comment lists a listing can deliver: the full pages of one menu list
\* that were fetched before an edit, then the rest of the list the edit put in
\* its place (the same list when nobody edits the issue meanwhile)
DeliveredListings ==
  UNION {{SubSeq(before, 1, n)
            \o (IF n < Len(after) THEN SubSeq(after, n + 1, Len(after)) ELSE <<>>) :
          n \in {m \in 0..Len(before) : m % PerPage = 0}} :
         before \in MenuListings, after \in MenuListings}

\* what getLatestFormData answers for a body and a comment list once the
\* comments of other authors are removed, and once one more such comment, with
\* or without form headings, is added at any place; computed once for the
\* bodies an issue can have and the comment lists a listing can deliver
textsOfListings ==
  [body \in {IssueMenu[t].body : t \in 1..Len(IssueMenu)},
   comments \in DeliveredListings |->
     {getLatestFormData([body |-> body], commentsOfBot(comments))}
       \cup {getLatestFormData([body |-> body], withForeignComment(comments, p, text)) :
               p \in 1..Len(comments) + 1, text \in {CommentEvil, CommentThanks}}]

\* the same table, compared once with the empty function so that it is held
\* as an explicit table and not computed anew at each use
textsWhateverOthersWrite ==
  IF textsOfListings = <<>> THEN textsOfListings ELSE textsOfListings

\* C14: in part_001 the form text a task resolved is the issue's body (the
\* empty text for a null body) or the body of a delivered comment of
\* oss-wishlist-bot that contains "###"; a task whose listing succeeded
\* resolved the text, and built the record, that the same issue gives without
\* the delivered comments of other authors, and with one more such comment,
\* with form headings, at any place.
C14_OnlyBotCommentsDecide ==
  variant = "part_001" =>
    \A k \in 1..Len(tasks) :
      tasks[k].state = "done" =>
        LET issue    == tasks[k].issue
            comments == tasks[k].acc
        IN  /\ tasks[k].value \in
                 {Some(OrEmpty(issue.body))}
                   \cup {comments[j].body : j \in formPositions(comments)}
            /\ ~tasks[k].failed =>
                 /\ \A text \in textsWhateverOthersWrite[issue.body, comments] :
                      /\ tasks[k].value = Some(text)
                      /\ tasks[k].record =
                           Some(parseWishlistIssue001(issue, issue.labels, text))

\* a written cache with the record of an issue whose most recent comment is a
\* form by another author, after bot comments: the record is built from the
\* bot's form, not from that comment and not from the body
C14_Witness ==
  /\ variant = "part_001"
  /\ exitCode = Some(0)
  /\ \E k \in 1..Len(tasks) :
       LET comments == tasks[k].acc
       IN  /\ tasks[k].state = "done" /\ ~tasks[k].failed
           /\ formPositions(comments) # {}
           /\ comments[Len(comments)].login # BotLogin
           /\ hasMarker(comments[Len(comments)])
           /\ tasks[k].value = Some(comments[SetMax(formPositions(comments))].body[1])
           /\ tasks[k].value # comments[Len(comments)].body
           /\ cache.wishlists[k] = tasks[k].record[1]

====
